---- MODULE Spec2Model ----
(***************************************************************************)
(* Model of main.py: the data access layer DKIEducationData (a pandas      *)
(* frame read from a CSV file, cleaned once, then queried) and the         *)
(* Controller methods that the HTTP routes call.                           *)
(*                                                                         *)
(* Text is a sequence of one-character strings, so that percent-decoding   *)
(* and the building and reading of the query expression act on characters. *)
(***************************************************************************)
EXTENDS Integers, Sequences, FiniteSets, TLC

VARIABLES pc, src, df, request, call, result

vars == <<pc, src, df, request, call, result>>

(***************************************************************************)
(* Bounds of the model.                                                    *)
(***************************************************************************)
MaxRows == 2

MaxFilters == 2

MaxGroups == 2

(***************************************************************************)
(* Characters.                                                             *)
(***************************************************************************)
Quote == "\""

\* ord() of the characters the model uses
CharCode(c) ==
    CASE c = "NUL" -> 0
      [] c = "STX" -> 2
      [] c = "ENQ" -> 5
      [] c = " " -> 32
      [] c = Quote -> 34
      [] c = "%" -> 37
      [] c = "," -> 44
      [] c = "0" -> 48
      [] c = "1" -> 49
      [] c = "2" -> 50
      [] c = "3" -> 51
      [] c = "4" -> 52
      [] c = "5" -> 53
      [] c = "6" -> 54
      [] c = "7" -> 55
      [] c = "8" -> 56
      [] c = "9" -> 57
      [] c = "J" -> 74
      [] c = "K" -> 75
      [] c = "P" -> 80
      [] c = "R" -> 82
      [] c = "U" -> 85

Alphabet ==
    {"NUL", "STX", "ENQ", " ", Quote, "%", ",", "0", "1", "2", "3", "4", "5",
     "6", "7", "8", "9", "J", "K", "P", "R", "U"}

\* chr(): the character of a code
Chr(n) == CHOOSE c \in Alphabet : CharCode(c) = n

\* the hexadecimal digits among the characters above (no a-f, A-F there)
HexDigits == {"0", "1", "2", "3", "4", "5", "6", "7", "8", "9"}

HexValue(c) == CharCode(c) - 48

(***************************************************************************)
(* urllib.parse.unquote: every "%" followed by two hexadecimal digits      *)
(* becomes the character of that code; any other "%" stays as it is.       *)
(***************************************************************************)
RECURSIVE unquote(_)
unquote(s) ==
    IF s = <<>> THEN <<>>
    ELSE IF s[1] = "%" /\ Len(s) >= 3 /\ s[2] \in HexDigits /\ s[3] \in HexDigits
         THEN <<Chr(16 * HexValue(s[2]) + HexValue(s[3]))>>
              \o unquote(SubSeq(s, 4, Len(s)))
         ELSE <<s[1]>> \o unquote(Tail(s))

(***************************************************************************)
(* Cells of a frame.  t is the kind of value: "nan" (missing), "int",      *)
(* "float" (the whole number n held as a float) or "str" (the text s).     *)
(***************************************************************************)
NaN == [t |-> "nan", n |-> 0, s |-> <<>>]

IntCell(k) == [t |-> "int", n |-> k, s |-> <<>>]

FloatCell(k) == [t |-> "float", n |-> k, s |-> <<>>]

StrCell(x) == [t |-> "str", n |-> 0, s |-> x]

IsDigits(x) == x # <<>> /\ \A i \in 1..Len(x) : x[i] \in HexDigits

RECURSIVE ParseInt(_)
ParseInt(x) ==
    IF x = <<>> THEN 0
    ELSE 10 * ParseInt(SubSeq(x, 1, Len(x) - 1)) + HexValue(x[Len(x)])

(***************************************************************************)
(* The columns of the file, left to right.                                 *)
(***************************************************************************)
Tahun == "tahun"

Provinsi == "nama_provinsi"

Kota == "nama_kabupaten/kota"

Kecamatan == "nama_kecamatan"

Kelurahan == "nama_kelurahan"

StrataII == "strata_II"

StrataIII == "strata_III"

SourceColumns == <<Tahun, Provinsi, Kota, Kecamatan, Kelurahan, StrataII, StrataIII>>

Range(f) == {f[i] : i \in DOMAIN f}

RECURSIVE SelectSeq2(_, _)
\* the members of sequence q that lie in set S, in q's order
SelectSeq2(q, S) ==
    IF q = <<>> THEN <<>>
    ELSE (IF Head(q) \in S THEN <<Head(q)>> ELSE <<>>) \o SelectSeq2(Tail(q), S)

NoFrame == [columns |-> <<>>, dtypes |-> <<>>, rows |-> <<>>]

(***************************************************************************)
(* pd.read_csv: a column whose non-empty cells are all whole numbers is    *)
(* int64, or float64 when a cell is empty; any other column is object and  *)
(* keeps the text of its cells.  A frame without rows has object columns.  *)
(***************************************************************************)
ColumnDtype(rows, c) ==
    LET texts == {rows[i][c] : i \in DOMAIN rows}
    IN  IF rows = <<>> THEN "object"
        ELSE IF \E x \in texts : x # <<>> /\ ~IsDigits(x) THEN "object"
        ELSE IF <<>> \in texts THEN "float64"
        ELSE "int64"

ReadCell(dtype, x) ==
    IF x = <<>> THEN NaN
    ELSE IF dtype = "int64" THEN IntCell(ParseInt(x))
    ELSE IF dtype = "float64" THEN FloatCell(ParseInt(x))
    ELSE StrCell(x)

read_csv(file) ==
    LET dt == [c \in Range(file.columns) |-> ColumnDtype(file.rows, c)]
    IN  [columns |-> file.columns,
         dtypes  |-> dt,
         rows    |-> [i \in DOMAIN file.rows |->
                        [c \in Range(file.columns) |-> ReadCell(dt[c], file.rows[i][c])]]]

(***************************************************************************)
(* The steps of __clean.                                                   *)
(***************************************************************************)
drop(frame, c) ==
    LET keep == Range(frame.columns) \ {c}
    IN  [columns |-> SelectSeq2(frame.columns, keep),
         dtypes  |-> [k \in keep |-> frame.dtypes[k]],
         rows    |-> [i \in DOMAIN frame.rows |-> [k \in keep |-> frame.rows[i][k]]]]

\* fillna(0): a missing value becomes 0, a float in a float column
FillCell(dtype, cell) ==
    IF cell.t # "nan" THEN cell
    ELSE IF dtype = "float64" THEN FloatCell(0) ELSE IntCell(0)

fillna(frame) ==
    [frame EXCEPT !.rows = [i \in DOMAIN frame.rows |->
        [c \in Range(frame.columns) |-> FillCell(frame.dtypes[c], frame.rows[i][c])]]]

\* select_dtypes(exclude=['object'])
NumericColumns(frame) == {c \in Range(frame.columns) : frame.dtypes[c] # "object"}

\* np.int64 applied to a cell of a numeric column
ToInt64(cell) == IntCell(cell.n)

applymap_int64(frame) ==
    LET cols == NumericColumns(frame)
    IN  [frame EXCEPT
           !.dtypes = [c \in Range(frame.columns) |->
                         IF c \in cols THEN "int64" ELSE frame.dtypes[c]],
           !.rows = [i \in DOMAIN frame.rows |->
                       [c \in Range(frame.columns) |->
                          IF c \in cols THEN ToInt64(frame.rows[i][c])
                          ELSE frame.rows[i][c]]]]

NoCall == [op |-> "none", groups |-> <<>>, filters |-> <<>>, raw |-> <<>>]

NoResult == [kind |-> "none", recs |-> <<>>, cols |-> <<>>, err |-> ""]

\* DKIEducationData.__open
open ==
    /\ pc = "new"
    /\ df' = read_csv(src)
    /\ pc' = "opened"
    /\ UNCHANGED <<src, request, call, result>>

\* DKIEducationData.__clean; drop raises KeyError when the file has no 'tahun'
clean ==
    /\ pc = "opened"
    /\ IF Tahun \in Range(df.columns)
       THEN /\ df' = applymap_int64(fillna(drop(df, Tahun)))
            /\ pc' = "ready"
       ELSE /\ df' = df
            /\ pc' = "failed"
    /\ UNCHANGED <<src, request, call, result>>

(***************************************************************************)
(* Results of a call: a list of records, one bare record ("mapping"), a    *)
(* list of column names, or the exception raised.                          *)
(***************************************************************************)
Records(rs) == [kind |-> "records", recs |-> rs, cols |-> <<>>, err |-> ""]

Mapping(r) == [kind |-> "mapping", recs |-> <<r>>, cols |-> <<>>, err |-> ""]

Columns(cs) == [kind |-> "columns", recs |-> <<>>, cols |-> cs, err |-> ""]

Raise(e) == [kind |-> "error", recs |-> <<>>, cols |-> <<>>, err |-> e]

\* DataFrame.to_dict('records')
to_dict_records(frame) == frame.rows

\* DKIEducationData.select_all
select_all_result(frame) == Records(to_dict_records(frame))

(***************************************************************************)
(* get_column_names: df.loc[:, from_:until].columns, a label slice that    *)
(* includes both ends and raises KeyError for a label that is no column.   *)
(***************************************************************************)
IndexOf(q, x) == CHOOSE i \in DOMAIN q : q[i] = x

\* a slip: a slice that stops before the end label, as a positional slice does
get_column_names_exclusive(frame, from_, until) ==
    IF from_ \notin Range(frame.columns) \/ until \notin Range(frame.columns)
    THEN Raise("KeyError")
    ELSE Columns(SubSeq(frame.columns, IndexOf(frame.columns, from_),
                        IndexOf(frame.columns, until) - 1))

get_column_names(frame, from_, until) ==
    IF from_ \notin Range(frame.columns) \/ until \notin Range(frame.columns)
    THEN Raise("KeyError")
    ELSE Columns(SubSeq(frame.columns, IndexOf(frame.columns, from_),
                        IndexOf(frame.columns, until)))

(***************************************************************************)
(* df.query(expr).  The expression is text: for every filter               *)
(*     `column` == "value"       joined by  |                              *)
(* An item is one character of that text, or a back-quoted column name or  *)
(* an operator taken as one unit.                                          *)
(***************************************************************************)
Ch(c) == [k |-> "ch", v |-> c]

Bt(c) == [k |-> "bt", v |-> c]

Op(o) == [k |-> "op", v |-> o]

Chars(x) == [i \in DOMAIN x |-> Ch(x[i])]

\* f'`{column}` == "{value}"'
Predicate(f) == <<Bt(f[1]), Op("=="), Ch(Quote)>> \o Chars(f[2]) \o <<Ch(Quote)>>

RECURSIVE QueryText(_)
\* ' | '.join(...)
QueryText(filters) ==
    IF Len(filters) = 1 THEN Predicate(filters[1])
    ELSE Predicate(Head(filters)) \o <<Op("|")>> \o QueryText(Tail(filters))

Token(k, v, lit) == [k |-> k, v |-> v, lit |-> lit]

RECURSIVE Tokenize(_, _, _)
(***************************************************************************)
(* The tokens of the expression.  A string literal runs from a quote to    *)
(* the next quote, whatever lies between; a literal still open at the end  *)
(* of the text is an error.  (No text of this model holds three quotes in  *)
(* a row, which would open a triple-quoted literal.)                       *)
(***************************************************************************)
Tokenize(items, inStr, acc) ==
    IF items = <<>>
    THEN IF inStr THEN <<Token("err", "", <<>>)>> ELSE <<>>
    ELSE LET x == Head(items)
             rest == Tail(items)
         IN  IF inStr
             THEN IF x = Ch(Quote)
                  THEN <<Token("str", "", acc)>> \o Tokenize(rest, FALSE, <<>>)
                  ELSE Tokenize(rest, TRUE, Append(acc, x))
             ELSE IF x = Ch(Quote) THEN Tokenize(rest, TRUE, <<>>)
             ELSE IF x = Ch(" ") THEN Tokenize(rest, FALSE, <<>>)
             ELSE IF x.k = "ch"
                  THEN <<Token("name", x.v, <<>>)>> \o Tokenize(rest, FALSE, <<>>)
             ELSE <<Token(x.k, x.v, <<>>)>> \o Tokenize(rest, FALSE, <<>>)

RECURSIVE StrRun(_)
\* the string literals at the head of the tokens: adjacent literals are one
StrRun(toks) ==
    IF toks # <<>> /\ Head(toks).k = "str" THEN <<Head(toks)>> \o StrRun(Tail(toks))
    ELSE <<>>

RECURSIVE JoinLits(_)
JoinLits(toks) == IF toks = <<>> THEN <<>> ELSE Head(toks).lit \o JoinLits(Tail(toks))

RECURSIVE ParseExpr(_)
(***************************************************************************)
(* The comparisons of the expression: name == literal, joined by | .       *)
(* Anything else (a name or a number next to a literal, a literal left     *)
(* open) is rejected: with the characters of this model no such text is a  *)
(* valid expression.                                                       *)
(***************************************************************************)
ParseExpr(toks) ==
    IF /\ Len(toks) >= 3
       /\ toks[1].k = "bt"
       /\ toks[2].k = "op" /\ toks[2].v = "=="
       /\ toks[3].k = "str"
    THEN LET run == StrRun(SubSeq(toks, 3, Len(toks)))
             term == [col |-> toks[1].v, lit |-> JoinLits(run)]
             rest == SubSeq(toks, 3 + Len(run), Len(toks))
         IN  IF rest = <<>> THEN [ok |-> TRUE, terms |-> <<term>>]
             ELSE IF rest[1].k = "op" /\ rest[1].v = "|"
                  THEN LET r == ParseExpr(Tail(rest))
                       IN  [ok |-> r.ok, terms |-> <<term>> \o r.terms]
                  ELSE [ok |-> FALSE, terms |-> <<>>]
    ELSE [ok |-> FALSE, terms |-> <<>>]

\* column == "literal" on one cell: equal when the cell is that very text
CellEquals(cell, lit) ==
    /\ cell.t = "str"
    /\ Len(cell.s) = Len(lit)
    /\ \A i \in DOMAIN lit : lit[i] = Ch(cell.s[i])

\* the rows a parsed expression keeps: those some comparison accepts
Mask(frame, terms) ==
    {i \in DOMAIN frame.rows :
        \E j \in DOMAIN terms : CellEquals(frame.rows[i][terms[j].col], terms[j].lit)}

RECURSIVE TakeRows(_, _, _)
TakeRows(rows, keep, i) ==
    IF i > Len(rows) THEN <<>>
    ELSE (IF i \in keep THEN <<rows[i]>> ELSE <<>>) \o TakeRows(rows, keep, i + 1)

(***************************************************************************)
(* query: [ok, err, frame].  SyntaxError for a text that does not parse,   *)
(* UndefinedVariableError for a name in it that is no column.              *)
(***************************************************************************)
query(frame, filters) ==
    LET parsed == ParseExpr(Tokenize(QueryText(filters), FALSE, <<>>))
    IN  IF ~parsed.ok THEN [ok |-> FALSE, err |-> "SyntaxError", frame |-> frame]
        ELSE IF \E j \in DOMAIN parsed.terms :
                    parsed.terms[j].col \notin Range(frame.columns)
        THEN [ok |-> FALSE, err |-> "UndefinedVariableError", frame |-> frame]
        ELSE [ok |-> TRUE, err |-> "",
              frame |-> [frame EXCEPT
                           !.rows = TakeRows(frame.rows, Mask(frame, parsed.terms), 1)]]

(***************************************************************************)
(* groupby(groups).sum().reset_index().to_dict('records')                  *)
(***************************************************************************)
RECURSIVE LexLess(_, _)
\* x < y for two texts
LexLess(x, y) ==
    IF y = <<>> THEN FALSE
    ELSE IF x = <<>> THEN TRUE
    ELSE IF x[1] # y[1] THEN CharCode(x[1]) < CharCode(y[1])
    ELSE LexLess(Tail(x), Tail(y))

\* the order of group values: numbers by value and before texts, texts by character
CellLess(a, b) ==
    IF a.t = "str" /\ b.t = "str" THEN LexLess(a.s, b.s)
    ELSE IF a.t = "str" THEN FALSE
    ELSE IF b.t = "str" THEN TRUE
    ELSE a.n < b.n

RECURSIVE KeyLess(_, _)
KeyLess(x, y) ==
    IF x = <<>> THEN FALSE
    ELSE IF x[1] # y[1] THEN CellLess(x[1], y[1])
    ELSE KeyLess(Tail(x), Tail(y))

RECURSIVE SortKeys(_)
SortKeys(S) ==
    IF S = {} THEN <<>>
    ELSE LET m == CHOOSE k \in S : \A o \in S \ {k} : KeyLess(k, o)
         IN  <<m>> \o SortKeys(S \ {m})

GroupKey(row, groups) == [j \in DOMAIN groups |-> row[groups[j]]]

\* a slip: the value of the group's first row instead of the sum over its rows
FirstOver(rows, groups, key, c) ==
    LET idx == {i \in DOMAIN rows : GroupKey(rows[i], groups) = key}
    IN  IF idx = {} THEN 0 ELSE rows[CHOOSE i \in idx : \A j \in idx : i <= j][c].n

\* a slip: count() instead of sum()
CountOver(rows, groups, key, c) ==
    Cardinality({i \in DOMAIN rows : GroupKey(rows[i], groups) = key})

RECURSIVE SumOver(_, _, _, _)
\* the sum of column c over the rows whose group key is key
SumOver(rows, groups, key, c) ==
    IF rows = <<>> THEN 0
    ELSE (IF GroupKey(Head(rows), groups) = key THEN Head(rows)[c].n ELSE 0)
         + SumOver(Tail(rows), groups, key, c)

HasDuplicates(q) == \E i, j \in DOMAIN q : i < j /\ q[i] = q[j]

\* the columns sum() adds up: the numeric ones that are no group key
SummedColumns(frame, groups) == NumericColumns(frame) \ Range(groups)

(***************************************************************************)
(* One record per distinct combination of group values, in sorted order:   *)
(* the group values and the sum of every summed column.  groupby raises    *)
(* ValueError without keys and KeyError for a key that is no column;       *)
(* reset_index raises ValueError when a key is named twice.                *)
(* What sum() makes of a text column that is no group key depends on the   *)
(* pandas version (left out, or the texts joined); a summary record here   *)
(* holds the group fields and the sums of the numeric columns.             *)
(***************************************************************************)
groupby_sum(frame, groups) ==
    IF groups = <<>> THEN [ok |-> FALSE, err |-> "ValueError", recs |-> <<>>]
    ELSE IF \E j \in DOMAIN groups : groups[j] \notin Range(frame.columns)
    THEN [ok |-> FALSE, err |-> "KeyError", recs |-> <<>>]
    ELSE IF HasDuplicates(groups)
    THEN [ok |-> FALSE, err |-> "ValueError", recs |-> <<>>]
    ELSE LET keys == SortKeys({GroupKey(frame.rows[i], groups) : i \in DOMAIN frame.rows})
             summed == SummedColumns(frame, groups)
         IN  [ok |-> TRUE, err |-> "",
              recs |-> [k \in DOMAIN keys |->
                  [c \in Range(groups) \cup summed |->
                      IF c \in summed
                      THEN IntCell(SumOver(frame.rows, groups, keys[k], c))
                      ELSE keys[k][IndexOf(groups, c)]]]]

\* a slip: the list is returned whatever its length
never_pop(data) == Records(data)

\* return data.pop() if len(data) == 1 else data
pop_if_single(data) == IF Len(data) = 1 THEN Mapping(data[1]) ELSE Records(data)

\* the frame the aggregation runs on: df itself, or what query keeps of it
filtered_data(frame, filters) ==
    IF Len(filters) = 0 THEN [ok |-> TRUE, err |-> "", frame |-> frame]
    ELSE query(frame, filters)

\* DKIEducationData.summary_total_by
summary_total_by_result(frame, groups, filters) ==
    LET f == filtered_data(frame, filters)
    IN  IF ~f.ok THEN Raise(f.err)
        ELSE LET g == groupby_sum(f.frame, groups)
             IN  IF ~g.ok THEN Raise(g.err) ELSE pop_if_single(g.recs)

(***************************************************************************)
(* The calls.  call records the operation, the groups and filters it gave  *)
(* to summary_total_by, and in raw the arguments it was called with.       *)
(***************************************************************************)
Call(op, groups, filters, raw) ==
    [op |-> op, groups |-> groups, filters |-> filters, raw |-> raw]

\* a slip: query(..., inplace=True), which filters self.df itself
df_after_query_inplace(frame, filters) ==
    IF Len(filters) = 0 THEN frame ELSE query(frame, filters).frame

\* self.df after df.query(...): query returns a new frame and leaves df alone
df_after_query(frame, filters) == frame

\* a handler runs from the request to its return value in one step
Serve(c, r, d) ==
    /\ pc = "ready"
    /\ call' = c
    /\ result' = r
    /\ df' = d
    /\ pc' = "replying"
    /\ UNCHANGED src

\* the route returns the value as the response; the next request may come
reply ==
    /\ pc = "replying"
    /\ pc' = "ready"
    /\ request' = <<>>
    /\ call' = NoCall
    /\ result' = NoResult
    /\ UNCHANGED <<src, df>>

\* self.data.summary_total_by(groups, filters) on behalf of call c
Summarize(c, groups, filters) ==
    Serve([c EXCEPT !.groups = groups, !.filters = filters],
          summary_total_by_result(df, groups, filters), df_after_query(df, filters))

\* groups = self.data.get_column_names(until=...), then summary_total_by
SummarizeUntil(c, until, filters) ==
    LET g == get_column_names(df, Provinsi, until)
    IN  IF g.kind = "error" THEN Serve(c, g, df)
        ELSE Summarize(c, g.cols, filters)

\* Controller.display_raw
display_raw == Serve(Call("display_raw", <<>>, <<>>, <<>>), select_all_result(df), df)

\* DKIEducationData.get_column_names, called with both boundaries
column_names(from_, until) ==
    Serve(Call("get_column_names", <<>>, <<>>, <<from_, until>>),
          get_column_names(df, from_, until), df)

\* DKIEducationData.summary_total_by, called directly
summary_total_by(groups, filters) ==
    Summarize(Call("summary_total_by", <<>>, <<>>, <<groups, filters>>), groups, filters)

\* Controller.summary
summary == Summarize(Call("summary", <<>>, <<>>, <<>>), <<Provinsi>>, <<>>)

\* Controller.summary_cities
summary_cities == SummarizeUntil(Call("summary_cities", <<>>, <<>>, <<>>), Kota, <<>>)

\* [(column, unquote(v)) for v in values]
FiltersOf(column, values) == [i \in DOMAIN values |-> <<column, unquote(values[i])>>]

\* Controller.summary_districts
summary_districts(cities) ==
    SummarizeUntil(Call("summary_districts", <<>>, <<>>, <<cities>>),
                   Kecamatan, FiltersOf(Kota, cities))

\* Controller.summary_sub_districts
summary_sub_districts(cities, districts) ==
    SummarizeUntil(Call("summary_sub_districts", <<>>, <<>>, <<cities, districts>>),
                   Kelurahan, FiltersOf(Kota, cities) \o FiltersOf(Kecamatan, districts))

\* Controller.summary_city
summary_city(city) ==
    Summarize(Call("summary_city", <<>>, <<>>, <<city>>), <<Kota>>, FiltersOf(Kota, <<city>>))

\* Controller.summary_district
summary_district(district) ==
    Summarize(Call("summary_district", <<>>, <<>>, <<district>>),
              <<Kecamatan>>, FiltersOf(Kecamatan, <<district>>))

\* Controller.summary_sub_district
summary_sub_district(sub_district) ==
    Summarize(Call("summary_sub_district", <<>>, <<>>, <<sub_district>>),
              <<Kelurahan>>, FiltersOf(Kelurahan, <<sub_district>>))

(***************************************************************************)
(* The files and the arguments the model draws from.                       *)
(***************************************************************************)
SeqsUpTo(S, n) == UNION {[1..k -> S] : k \in 0..n}

Year == <<"2", "0", "1", "4">>

Province == <<"P">>

\* city, district, sub-district
Regions ==
    { << <<"J", " ", "U">>, <<"K", "J", "U">>, <<"P", "R">> >>,
      << <<"J", " ", "U">>, <<"K", "P", "U">>, <<"P", "U">> >>,
      << <<"J", "P", "U">>, <<"K", "P", "U">>, <<"P", "R">> >> }

\* the two measure cells of a row as the file gives them; <<>> is an empty cell
Measures == { << <<>>, <<"1">> >>, << <<"2">>, <<"3">> >> }

FileRow(g, m) ==
    [c \in Range(SourceColumns) |->
        CASE c = Tahun -> Year
          [] c = Provinsi -> Province
          [] c = Kota -> g[1]
          [] c = Kecamatan -> g[2]
          [] c = Kelurahan -> g[3]
          [] c = StrataII -> m[1]
          [] c = StrataIII -> m[2]]

FileRows == {FileRow(g, m) : g \in Regions, m \in Measures}

Files == {[columns |-> SourceColumns, rows |-> rs] : rs \in SeqsUpTo(FileRows, MaxRows)}

\* path values as they stand in the URL of a request
PathValues ==
    { <<"J", "%", "2", "0", "U">>, <<"J", "P", "U">>,
      <<"J", "%", "2", "5", "2", "0", "U">>, <<"K", "P", "U">>, <<"P", "R">>,
      <<"J", "%", "2", "2", "U">> }

\* values of the query parameters city and district, as they stand in the URL
QueryValues ==
    { <<"J", "%", "2", "0", "U">>, <<"J", "P", "U">>, <<"K", "P", "U">>,
      <<"J", "%", "2", "2", "U">> }

\* the fields a direct call groups by: names, a measure, and 'tahun', which
\* is no column of the Dataset
Fields == {Kota, Kecamatan, Kelurahan, StrataIII, Tahun}

\* the filters of a direct call
Predicates ==
    { <<Kecamatan, <<"K", "P", "U">>>>, <<Kecamatan, <<"J", Quote>>>>,
      <<Tahun, <<"K", "P", "U">>>>, <<Tahun, <<Quote, "U">>>> }

DirectArgs ==
    {<<g, <<>>>> : g \in SeqsUpTo(Fields, MaxGroups)}
    \cup {<<g, f>> : g \in {<<Kelurahan>>, <<Tahun>>},
                     f \in SeqsUpTo(Predicates, MaxFilters) \ {<<>>}}

(***************************************************************************)
(* The routes.  A route finds its path and query values in the request's   *)
(* URL; the server and the framework percent-decode them before the        *)
(* handler gets them as its arguments (the ASGI path is the decoded path,  *)
(* the query string is parsed into decoded values).  Every query value     *)
(* drawn below passes Query(min_length=3).                                 *)
(***************************************************************************)
path_param(segment) == unquote(segment)

query_params(values) == [i \in DOMAIN values |-> unquote(values[i])]

\* @app.get('/raw')
GET_raw == request' = <<>> /\ display_raw

\* @app.get('/summary')
GET_summary == request' = <<>> /\ summary

\* @app.get('/cities')
GET_cities == request' = <<>> /\ summary_cities

\* @app.get('/districts')
GET_districts(cities) ==
    request' = <<cities>> /\ summary_districts(query_params(cities))

\* @app.get('/subdistricts')
GET_subdistricts(cities, districts) ==
    /\ request' = <<cities, districts>>
    /\ summary_sub_districts(query_params(cities), query_params(districts))

\* @app.get('/city/{city}')
GET_city(city) == request' = <<city>> /\ summary_city(path_param(city))

\* @app.get('/district/{district}')
GET_district(district) ==
    request' = <<district>> /\ summary_district(path_param(district))

\* @app.get('/subdistrict/{sub_district}')
GET_subdistrict(sub_district) ==
    request' = <<sub_district>> /\ summary_sub_district(path_param(sub_district))

Init ==
    /\ pc = "new"
    /\ src \in Files
    /\ df = NoFrame
    /\ request = <<>>
    /\ call = NoCall
    /\ result = NoResult

\* the process serves requests once the Controller is constructed
Ready == pc = "ready"

Next ==
    \/ open
    \/ clean
    \/ Ready /\ GET_raw
    \/ Ready /\ \E a, b \in Range(SourceColumns) : request' = <<>> /\ column_names(a, b)
    \/ Ready /\ \E a \in DirectArgs : request' = <<>> /\ summary_total_by(a[1], a[2])
    \/ Ready /\ GET_summary
    \/ Ready /\ GET_cities
    \/ Ready /\ \E cs \in SeqsUpTo(QueryValues, MaxFilters) : GET_districts(cs)
    \/ Ready /\ \E cs, ds \in SeqsUpTo(QueryValues, MaxFilters) :
                   Len(cs) + Len(ds) <= MaxFilters /\ GET_subdistricts(cs, ds)
    \/ Ready /\ \E v \in PathValues : GET_city(v)
    \/ Ready /\ \E v \in PathValues : GET_district(v)
    \/ Ready /\ \E v \in PathValues : GET_subdistrict(v)
    \/ reply

Spec == Init /\ [][Next]_vars

(***************************************************************************)
(* The file is read with every textual form a cell may take: a measure     *)
(* written with a thousands separator, an empty name, a file without the   *)
(* 'tahun' column.                                                         *)
(***************************************************************************)
LoadRow(cols, city, m1, m2) ==
    [c \in Range(cols) |->
        CASE c = Tahun -> Year
          [] c = Provinsi -> Province
          [] c = Kota -> city
          [] c = Kecamatan -> <<"K", "P", "U">>
          [] c = Kelurahan -> <<"P", "R">>
          [] c = StrataII -> m1
          [] c = StrataIII -> m2]

LoadRows(cols) ==
    {LoadRow(cols, city, m1, m2) :
        city \in {<<"J", " ", "U">>, <<>>},
        m1 \in {<<>>, <<"2">>, <<"1", ",", "0", "0", "0">>},
        m2 \in {<<"1">>, <<"3">>}}

LoadFiles ==
    UNION {{[columns |-> cols, rows |-> rs] : rs \in SeqsUpTo(LoadRows(cols), MaxRows)} :
              cols \in {SourceColumns, Tail(SourceColumns)}}

InitLoad ==
    /\ pc = "new"
    /\ src \in LoadFiles
    /\ df = NoFrame
    /\ request = <<>>
    /\ call = NoCall
    /\ result = NoResult

NextLoad == open \/ clean

SpecLoad == InitLoad /\ [][NextLoad]_vars

(***************************************************************************)
(* Properties.                                                             *)
(***************************************************************************)
MeasureFields == {StrataII, StrataIII}

SummaryOps ==
    {"summary_total_by", "summary", "summary_cities", "summary_districts",
     "summary_sub_districts", "summary_city", "summary_district",
     "summary_sub_district"}

\* a summarizing call has just returned
Summarized == pc = "replying" /\ call.op \in SummaryOps

Normal(r) == r.kind \in {"records", "mapping"}

RECURSIVE SumField(_, _)
\* the sum of field m over a sequence of records
SumField(recs, m) == IF recs = <<>> THEN 0 ELSE Head(recs)[m].n + SumField(Tail(recs), m)

GroupsExist == call.groups # <<>> /\ Range(call.groups) \subseteq Range(df.columns)

FilterFieldsExist == \A j \in DOMAIN call.filters : call.filters[j][1] \in Range(df.columns)

\* the Record holds exactly the predicate's value in the predicate's field
Satisfies(row, f) == row[f[1]].t = "str" /\ row[f[1]].s = f[2]

\* the rows that satisfy at least one predicate of the call's filters
Matching ==
    {i \in DOMAIN df.rows : \E j \in DOMAIN call.filters : Satisfies(df.rows[i], call.filters[j])}

\* the rows the call aggregated: all of them, or those its query kept
Kept == filtered_data(df, call.filters).frame.rows

GroupKeys(rows) == {GroupKey(rows[i], call.groups) : i \in DOMAIN rows}

KeptKeys == LET kept == Kept IN GroupKeys(kept)

(* C1, as stated: without filters, for every non-empty list of group       *)
(* fields that exist in the Dataset, every measure field summed over the   *)
(* returned summary Records equals that field summed over the Dataset.     *)
(* (Taken here for lists that name no field twice, which the claim         *)
(* includes.)                                                              *)
C1_ConservationAsStated ==
    (Summarized /\ call.filters = <<>> /\ GroupsExist /\ ~HasDuplicates(call.groups))
        => /\ Normal(result)
           /\ \A m \in MeasureFields : SumField(result.recs, m) = SumField(df.rows, m)

(* C1, amended: without filters, for every non-empty list of distinct      *)
(* group fields that exist in the Dataset, the call returns normally and   *)
(* every measure field that is not itself a group field, summed over the   *)
(* returned summary Records, equals that field summed over the Dataset.    *)
C1_Conservation ==
    (Summarized /\ call.filters = <<>> /\ GroupsExist /\ ~HasDuplicates(call.groups))
        => /\ Normal(result)
           /\ \A m \in MeasureFields \ Range(call.groups) :
                  SumField(result.recs, m) = SumField(df.rows, m)

\* two rows fall into one group and their measures are added up
C1_Witness ==
    /\ Summarized /\ call.filters = <<>>
    /\ Len(df.rows) = 2
    /\ result.kind = "mapping"
    /\ df.rows[1][StrataIII].n > 0 /\ df.rows[2][StrataIII].n > 0
    /\ StrataIII \notin Range(call.groups)

(* C2: a call that returns gives a bare single mapping if and only if the  *)
(* rows it aggregated form exactly one group; with no group or with two or *)
(* more it gives the sequence of all summary Records, one per group.       *)
C2_ReturnShape ==
    (Summarized /\ Normal(result))
        => LET n == Cardinality(KeptKeys)
           IN  /\ result.kind = "mapping" <=> n = 1
               /\ result.kind = "records" <=> n # 1
               /\ Len(result.recs) = n

\* a filter leaves one group of two rows, returned as a mapping
C2_Witness ==
    /\ Summarized /\ call.filters # <<>>
    /\ result.kind = "mapping"
    /\ Len(Kept) = 2

(* C3, as stated: a non-empty filter list whose predicates match no Record *)
(* gives an empty sequence and no error, whatever characters the values    *)
(* hold.                                                                   *)
C3_NoMatchIsEmpty ==
    (/\ Summarized /\ call.filters # <<>>
     /\ GroupsExist /\ ~HasDuplicates(call.groups) /\ FilterFieldsExist
     /\ Matching = {})
        => result = Records(<<>>)

(* C4, as stated: with a non-empty filter list the result is the           *)
(* partition-and-sum of exactly the Records that satisfy at least one      *)
(* predicate "field equals value".                                         *)
C4_FilterIsUnion ==
    (/\ Summarized /\ call.filters # <<>>
     /\ GroupsExist /\ ~HasDuplicates(call.groups) /\ FilterFieldsExist)
        => result = summary_total_by_result(
                        [df EXCEPT !.rows = TakeRows(df.rows, Matching, 1)],
                        call.groups, <<>>)

(* C5: when every group of the aggregated rows holds exactly one row,      *)
(* there is one summary Record per row and it holds, in every measure      *)
(* field, exactly the value of its source row.                             *)
C5_SingletonGroupsVerbatim ==
    (Summarized /\ Normal(result))
        => LET kept == Kept
           IN  Cardinality(GroupKeys(kept)) = Len(kept)
                  => /\ Len(result.recs) = Len(kept)
                     /\ \A i \in DOMAIN kept : \E k \in DOMAIN result.recs :
                           /\ \A g \in Range(call.groups) :
                                 result.recs[k][g] = kept[i][g]
                           /\ \A m \in MeasureFields :
                                 result.recs[k][m] = kept[i][m]

\* two rows, two groups, two summary Records
C5_Witness ==
    /\ Summarized /\ Normal(result)
    /\ Len(Kept) = 2 /\ Cardinality(KeptKeys) = 2
    /\ Len(result.recs) = 2

SingleEntityOps == {"summary_city", "summary_district", "summary_sub_district"}

OwnField(op) ==
    CASE op = "summary_city" -> Kota
      [] op = "summary_district" -> Kecamatan
      [] op = "summary_sub_district" -> Kelurahan

(* C6, as stated: the response of a single-entity endpoint is the summary  *)
(* by its own field, filtered to the path value percent-decoded once.      *)
C6_DecodedOnce ==
    (pc = "replying" /\ call.op \in SingleEntityOps)
        => result = summary_total_by_result(
                        df, <<OwnField(call.op)>>,
                        <<<<OwnField(call.op), unquote(request[1])>>>>)

\* the Dataset as load leaves it
Loaded(file) == applymap_int64(fillna(drop(read_csv(file), Tahun)))

(* C7: once loaded, the Dataset stays what load made of the file, whatever *)
(* calls were made, and every summary is the one the call gives on the     *)
(* freshly loaded Dataset.                                                 *)
C7_ReadOnly ==
    pc \in {"ready", "replying"}
        => LET fresh == Loaded(src)
           IN  /\ df = fresh
               /\ Summarized =>
                     result = summary_total_by_result(fresh, call.groups, call.filters)

\* a filtered call kept one of two rows, and both are still in the Dataset
C7_Witness ==
    /\ Summarized /\ call.filters # <<>>
    /\ Normal(result)
    /\ Len(Kept) = 1
    /\ Len(df.rows) = 2

(* C8, as stated: a call that names a group field or a filter field absent *)
(* from the Dataset fails; it returns no mapping and no sequence.          *)
C8_AbsentFieldFails ==
    (Summarized /\ (~GroupsExist \/ ~FilterFieldsExist)) => result.kind = "error"

(* C9, as stated: after load no Record holds a null, every measure field   *)
(* holds an integer, and a measure absent in the file is 0, whatever the   *)
(* textual form of the measure values.                                     *)
C9_CleanInvariant ==
    pc = "ready"
        => \A i \in DOMAIN df.rows : \A c \in Range(df.columns) :
              /\ df.rows[i][c].t # "nan"
              /\ c \in MeasureFields => df.rows[i][c].t = "int"
              /\ (c \in MeasureFields /\ src.rows[i][c] = <<>>) => df.rows[i][c] = IntCell(0)

Position(c) == IndexOf(df.columns, c)

(* C10: with both boundary columns in the Dataset, get_column_names gives  *)
(* exactly the columns from the first through the second, both included,   *)
(* in the Dataset's left-to-right order; from province to city these are   *)
(* province and city.                                                      *)
C10_ColumnsBetween ==
    (/\ pc = "replying" /\ call.op = "get_column_names"
     /\ call.raw[1] \in Range(df.columns) /\ call.raw[2] \in Range(df.columns))
        => /\ result.kind = "columns"
           /\ \A c \in Range(df.columns) :
                 c \in Range(result.cols)
                     <=> (Position(call.raw[1]) <= Position(c)
                          /\ Position(c) <= Position(call.raw[2]))
           /\ \A i, j \in DOMAIN result.cols :
                 i < j => Position(result.cols[i]) < Position(result.cols[j])
           /\ (call.raw = <<Provinsi, Kota>>) => result.cols = <<Provinsi, Kota>>

\* a slice of several columns that stops before the last column
C10_Witness ==
    /\ pc = "replying" /\ call.op = "get_column_names"
    /\ call.raw = <<Kota, Kelurahan>>
    /\ result.cols = <<Kota, Kecamatan, Kelurahan>>

====
